---- MODULE Spec2Model ----
(***************************************************************************)
(* Model of the kitties pallet (pallets/kitties/src/lib.rs): the two      *)
(* dispatchable calls create and breed over the storage items Kitties and *)
(* NextKittyId, the identifier allocator get_next_kitty_id, and the pure  *)
(* genetics functions Kitty::gender and combine_dna.                      *)
(***************************************************************************)
EXTENDS Integers, Sequences, FiniteSets, TLC

VARIABLES
    Kitties,       \* double_map AccountId, KittyId => Option<Kitty>
    NextKittyId,   \* the next kitty id
    events,        \* events deposited so far, oldest first
    call,          \* the last dispatched call: inputs and dispatch result
    dna1, dna2, selector, new_dna, gpc,  \* one application of combine_dna
    the_kitty, the_gender                  \* one application of Kitty::gender

vars == <<Kitties, NextKittyId, events, call, dna1, dna2, selector, new_dna, gpc,
          the_kitty, the_gender>>

registry == <<Kitties, NextKittyId, events>>
genetics == <<dna1, dna2, selector, new_dna, gpc, the_kitty, the_gender>>

----------------------------------------------------------------------------
(* Bounds *)

\* Bounded::max_value() of T::KittyId, scaled down
MaxKittyId == 3

(* Program constants *)

\* length of the array in struct Kitty([u8; 16])
DnaLen == 16
\* u8 lanes
ByteBits == 8
ByteMax == 255

\* T::AccountId: the accounts that sign calls
Accounts == {1, 2}
KittyIds == 0..MaxKittyId
Bytes == 0..ByteMax

\* Option<T>: None is the empty sequence, Some(v) is <<v>>
None == <<>>
Some(v) == <<v>>
IsSome(o) == Len(o) = 1
Unwrap(o) == o[1]

\* placeholders in the call record for inputs a call does not have
Absent == [id |-> -1, dna |-> <<>>, account |-> 0]
NoId == Absent.id
NoDna == Absent.dna
NoAccount == Absent.account

----------------------------------------------------------------------------
(* u8 bitwise operators *)

RECURSIVE BitAndN(_, _, _)
BitAndN(a, b, n) ==
    IF n = 0 THEN 0
    ELSE (a % 2) * (b % 2) + 2 * BitAndN(a \div 2, b \div 2, n - 1)

RECURSIVE BitOrN(_, _, _)
BitOrN(a, b, n) ==
    IF n = 0 THEN 0
    ELSE (IF a % 2 = 1 \/ b % 2 = 1 THEN 1 ELSE 0)
         + 2 * BitOrN(a \div 2, b \div 2, n - 1)

BitAnd(a, b) == BitAndN(a, b, ByteBits)
BitOr(a, b) == BitOrN(a, b, ByteBits)
BitNot(a) == ByteMax - a

\* bit i (0 = least significant) of byte a
RECURSIVE Pow2(_)
Pow2(n) == IF n = 0 THEN 1 ELSE 2 * Pow2(n - 1)
Bit(a, i) == (a \div Pow2(i)) % 2

----------------------------------------------------------------------------
(* Genetics *)

combine_dna_swapped(d1, d2, sel) ==
    BitOr(BitAnd(BitNot(sel), d2), BitAnd(sel, d1))

combine_dna_no_not(d1, d2, sel) ==
    BitOr(BitAnd(sel, d1), BitAnd(sel, d2))

\* (!selector & dna1) | (selector & dna2)
combine_dna(d1, d2, sel) ==
    BitOr(BitAnd(BitNot(sel), d1), BitAnd(sel, d2))

gender_second_byte(k) ==
    IF k[2] % 2 = 0 THEN "Male" ELSE "Female"

\* Kitty::gender
gender(k) ==
    IF k[1] % 2 = 0 THEN "Male" ELSE "Female"

\* values random_value can return: blake2_128 of (random_seed, sender,
\* extrinsic_index) is an input of the model, drawn from these 16-byte arrays
RandomValues ==
    { [i \in 1..DnaLen |-> (37 * i + 11) % 256],
      [i \in 1..DnaLen |-> (91 * i + 200) % 256] }

----------------------------------------------------------------------------
(* Origins *)

Signed(a) == [kind |-> "Signed", who |-> a]
Origins == { Signed(a) : a \in Accounts }
           \cup { [kind |-> "None", who |-> NoAccount] }

ensure_signed_any(origin) ==
    [ok |-> TRUE,
     value |-> IF origin.kind = "Signed" THEN origin.who
               ELSE CHOOSE a \in Accounts : TRUE,
     err |-> "Ok"]

\* frame_system::ensure_signed
ensure_signed(origin) ==
    IF origin.kind = "Signed"
    THEN [ok |-> TRUE, value |-> origin.who, err |-> "Ok"]
    ELSE [ok |-> FALSE, value |-> NoAccount, err |-> "BadOrigin"]

----------------------------------------------------------------------------
(* Identifier allocator *)

checked_add_wrapping(a, b) == Some((a + b) % (MaxKittyId + 1))

checked_add_saturating(a, b) ==
    Some(IF a + b > MaxKittyId THEN MaxKittyId ELSE a + b)

\* CheckedAdd::checked_add on T::KittyId
checked_add(a, b) ==
    IF a + b > MaxKittyId THEN None ELSE Some(a + b)

get_next_kitty_id_post(next_id) ==
    LET added == checked_add(next_id, 1) IN
    IF IsSome(added)
    THEN [ok |-> TRUE, value |-> Unwrap(added), stored |-> Unwrap(added), err |-> "Ok"]
    ELSE [ok |-> FALSE, value |-> NoId, stored |-> next_id, err |-> "KittiesIdOverflow"]

get_next_kitty_id_nostore(next_id) ==
    LET added == checked_add(next_id, 1) IN
    IF IsSome(added)
    THEN [ok |-> TRUE, value |-> next_id, stored |-> next_id, err |-> "Ok"]
    ELSE [ok |-> FALSE, value |-> NoId, stored |-> next_id, err |-> "KittiesIdOverflow"]

\* NextKittyId::try_mutate: on Ok the closure's new value is stored and the
\* old one returned; on Err storage keeps next_id
get_next_kitty_id(next_id) ==
    LET current_id == next_id
        added == checked_add(next_id, 1)
    IN  IF IsSome(added)
        THEN [ok |-> TRUE, value |-> current_id, stored |-> Unwrap(added), err |-> "Ok"]
        ELSE [ok |-> FALSE, value |-> NoId, stored |-> next_id, err |-> "KittiesIdOverflow"]

----------------------------------------------------------------------------
(* Storage access *)

kitties_any_owner(map, owner, kitty_id) ==
    IF \E o \in Accounts : IsSome(map[o, kitty_id])
    THEN map[CHOOSE o \in Accounts : IsSome(map[o, kitty_id]), kitty_id]
    ELSE None

\* getter Module::kitties(owner, kitty_id) -> Option<Kitty>
kitties(map, owner, kitty_id) == map[owner, kitty_id]

insert_replacing(map, owner, kitty_id, kitty) ==
    [k \in DOMAIN map |-> IF k = <<owner, kitty_id>> THEN Some(kitty) ELSE None]

\* Kitties::insert(owner, kitty_id, kitty)
insert(map, owner, kitty_id, kitty) ==
    [map EXCEPT ![owner, kitty_id] = Some(kitty)]

deposit_event_twice(evs, kind, owner, kitty_id, kitty) ==
    evs \o << [kind |-> kind, owner |-> owner, kitty_id |-> kitty_id, kitty |-> kitty],
              [kind |-> kind, owner |-> owner, kitty_id |-> kitty_id, kitty |-> kitty] >>

\* deposit_event
deposit_event(evs, kind, owner, kitty_id, kitty) ==
    Append(evs, [kind |-> kind, owner |-> owner, kitty_id |-> kitty_id,
                 kitty |-> kitty])

Call(op, origin, id1, id2, random, result) ==
    [op |-> op, origin |-> origin, kitty_id_1 |-> id1, kitty_id_2 |-> id2,
     random |-> random, result |-> result]

\* a call that returns an error at a point where storage is untouched
Fail(op, origin, id1, id2, err) ==
    /\ call' = Call(op, origin, id1, id2, NoDna, err)
    /\ UNCHANGED registry

----------------------------------------------------------------------------
(* Dispatchable calls *)

\* pub fn create(origin)
create(origin) ==
    /\ LET sender == ensure_signed(origin) IN
       IF ~sender.ok THEN Fail("create", origin, NoId, NoId, sender.err)
       ELSE
       LET current_id == get_next_kitty_id(NextKittyId) IN
       IF ~current_id.ok THEN Fail("create", origin, NoId, NoId, current_id.err)
       ELSE
       \E dna \in RandomValues :
          /\ NextKittyId' = current_id.stored
          /\ Kitties' = insert(Kitties, sender.value, current_id.value, dna)
          /\ events' = deposit_event(events, "KittyCreated", sender.value,
                                     current_id.value, dna)
          /\ call' = Call("create", origin, NoId, NoId, dna, "Ok")
    /\ UNCHANGED genetics

combine_all_swapped(kitty1_dna, kitty2_dna, sel) ==
    [i \in 1..Len(kitty1_dna) |-> combine_dna(kitty2_dna[i], kitty1_dna[i], sel[i])]

\* the loop of breed: new_dna[i] = combine_dna(kitty1_dna[i], kitty2_dna[i], selector[i])
combine_all(kitty1_dna, kitty2_dna, sel) ==
    [i \in 1..Len(kitty1_dna) |-> combine_dna(kitty1_dna[i], kitty2_dna[i], sel[i])]

breed_alloc_first(origin, kitty_id_1, kitty_id_2) ==
    /\ LET sender == ensure_signed(origin) IN
       IF ~sender.ok THEN Fail("breed", origin, kitty_id_1, kitty_id_2, sender.err)
       ELSE
       LET kitty_id == get_next_kitty_id(NextKittyId)
           kitty1 == kitties(Kitties, sender.value, kitty_id_1)
           kitty2 == kitties(Kitties, sender.value, kitty_id_2)
       IN
       IF ~kitty_id.ok THEN Fail("breed", origin, kitty_id_1, kitty_id_2, kitty_id.err)
       ELSE IF ~IsSome(kitty1) \/ ~IsSome(kitty2) THEN
          /\ NextKittyId' = kitty_id.stored
          /\ call' = Call("breed", origin, kitty_id_1, kitty_id_2, NoDna, "InvalidKittyId")
          /\ UNCHANGED <<Kitties, events>>
       ELSE IF gender(Unwrap(kitty1)) = gender(Unwrap(kitty2)) THEN
          /\ NextKittyId' = kitty_id.stored
          /\ call' = Call("breed", origin, kitty_id_1, kitty_id_2, NoDna, "SameGender")
          /\ UNCHANGED <<Kitties, events>>
       ELSE
       \E sel \in RandomValues :
          LET new_kitty == combine_all(Unwrap(kitty1), Unwrap(kitty2), sel) IN
          /\ NextKittyId' = kitty_id.stored
          /\ Kitties' = insert(Kitties, sender.value, kitty_id.value, new_kitty)
          /\ events' = deposit_event(events, "KittyBred", sender.value,
                                     kitty_id.value, new_kitty)
          /\ call' = Call("breed", origin, kitty_id_1, kitty_id_2, sel, "Ok")
    /\ UNCHANGED genetics

breed_no_gender_check(origin, kitty_id_1, kitty_id_2) ==
    /\ LET sender == ensure_signed(origin) IN
       IF ~sender.ok THEN Fail("breed", origin, kitty_id_1, kitty_id_2, sender.err)
       ELSE
       LET kitty1 == kitties(Kitties, sender.value, kitty_id_1)
           kitty2 == kitties(Kitties, sender.value, kitty_id_2)
       IN
       IF ~IsSome(kitty1) \/ ~IsSome(kitty2)
       THEN Fail("breed", origin, kitty_id_1, kitty_id_2, "InvalidKittyId")
       ELSE
       LET kitty_id == get_next_kitty_id(NextKittyId) IN
       IF ~kitty_id.ok THEN Fail("breed", origin, kitty_id_1, kitty_id_2, kitty_id.err)
       ELSE
       \E sel \in RandomValues :
          LET new_kitty == combine_all(Unwrap(kitty1), Unwrap(kitty2), sel) IN
          /\ NextKittyId' = kitty_id.stored
          /\ Kitties' = insert(Kitties, sender.value, kitty_id.value, new_kitty)
          /\ events' = deposit_event(events, "KittyBred", sender.value,
                                     kitty_id.value, new_kitty)
          /\ call' = Call("breed", origin, kitty_id_1, kitty_id_2, sel, "Ok")
    /\ UNCHANGED genetics

\* pub fn breed(origin, kitty_id_1, kitty_id_2)
breed(origin, kitty_id_1, kitty_id_2) ==
    /\ LET sender == ensure_signed(origin) IN
       IF ~sender.ok THEN Fail("breed", origin, kitty_id_1, kitty_id_2, sender.err)
       ELSE
       LET kitty1 == kitties(Kitties, sender.value, kitty_id_1) IN
       IF ~IsSome(kitty1)
       THEN Fail("breed", origin, kitty_id_1, kitty_id_2, "InvalidKittyId")
       ELSE
       LET kitty2 == kitties(Kitties, sender.value, kitty_id_2) IN
       IF ~IsSome(kitty2)
       THEN Fail("breed", origin, kitty_id_1, kitty_id_2, "InvalidKittyId")
       ELSE
       IF ~(gender(Unwrap(kitty1)) # gender(Unwrap(kitty2)))
       THEN Fail("breed", origin, kitty_id_1, kitty_id_2, "SameGender")
       ELSE
       LET kitty_id == get_next_kitty_id(NextKittyId) IN
       IF ~kitty_id.ok THEN Fail("breed", origin, kitty_id_1, kitty_id_2, kitty_id.err)
       ELSE
       \E sel \in RandomValues :
          LET kitty1_dna == Unwrap(kitty1)
              kitty2_dna == Unwrap(kitty2)
              new_kitty == combine_all(kitty1_dna, kitty2_dna, sel)
          IN
          /\ NextKittyId' = kitty_id.stored
          /\ Kitties' = insert(Kitties, sender.value, kitty_id.value, new_kitty)
          /\ events' = deposit_event(events, "KittyBred", sender.value,
                                     kitty_id.value, new_kitty)
          /\ call' = Call("breed", origin, kitty_id_1, kitty_id_2, sel, "Ok")
    /\ UNCHANGED genetics

----------------------------------------------------------------------------
(* Specification of the pallet *)

NoCall == Call("none", [kind |-> "None", who |-> NoAccount], NoId, NoId, NoDna, "Ok")

GeneticsIdle ==
    /\ dna1 = 0
    /\ dna2 = 0
    /\ selector = 0
    /\ new_dna = 0
    /\ gpc = "idle"
    /\ the_kitty = NoDna
    /\ the_gender = "none"

\* genesis: decl_storage defaults
Genesis ==
    /\ Kitties = [k \in Accounts \X KittyIds |-> None]
    /\ NextKittyId = 0
    /\ events = <<>>
    /\ call = NoCall

Init == Genesis /\ GeneticsIdle

Create == \E origin \in Origins : create(origin)

Breed == \E origin \in Origins : \E id1 \in KittyIds : \E id2 \in KittyIds :
            breed(origin, id1, id2)

Next == Create \/ Breed

Spec == Init /\ [][Next]_vars

----------------------------------------------------------------------------
(* Specification of the pure genetics functions *)

\* byte inputs of combine_dna: every nibble-repeated byte 0x00, 0x11, ..., 0xFF
\* and bytes with a single bit, a single gap, a half or a stripe set
ByteInputs ==
    { x \in Bytes : x % 17 = 0 }
    \cup { 1, 2, 15, 60, 127, 128, 195, 240, 254 }

InitGenetics ==
    /\ Genesis
    /\ dna1 \in ByteInputs
    /\ dna2 \in ByteInputs
    /\ selector \in ByteInputs
    /\ new_dna = 0
    /\ gpc = "start"
    /\ the_kitty = NoDna
    /\ the_gender = "none"

Combine ==
    /\ gpc = "start"
    /\ new_dna' = combine_dna(dna1, dna2, selector)
    /\ gpc' = "combined"
    /\ UNCHANGED <<dna1, dna2, selector, the_kitty, the_gender, registry, call>>

NextGenetics == Combine

SpecGenetics == InitGenetics /\ [][NextGenetics]_vars

----------------------------------------------------------------------------
(* Specification of Kitty::gender *)

\* bytes 1..15 of the payloads given to gender
TailInputs ==
    { [i \in 1..(DnaLen - 1) |-> 0],
      [i \in 1..(DnaLen - 1) |-> 1],
      [i \in 1..(DnaLen - 1) |-> ByteMax],
      [i \in 1..(DnaLen - 1) |-> (37 * i + 11) % 256] }

\* the payloads given to gender: every first byte with each tail
KittyInputs == { <<b>> \o t : b \in Bytes, t \in TailInputs }

InitGender ==
    /\ Genesis
    /\ dna1 = 0
    /\ dna2 = 0
    /\ selector = 0
    /\ new_dna = 0
    /\ gpc = "start"
    /\ the_kitty \in KittyInputs
    /\ the_gender = "none"

Gender ==
    /\ gpc = "start"
    /\ the_gender' = gender(the_kitty)
    /\ gpc' = "gendered"
    /\ UNCHANGED <<dna1, dna2, selector, new_dna, the_kitty, registry, call>>

NextGender == Gender

SpecGender == InitGender /\ [][NextGender]_vars

----------------------------------------------------------------------------
(* Properties of the pallet *)

Keys == Accounts \X KittyIds

\* the records of the registry: the keys that hold Some(kitty)
Stored(map) == { k \in Keys : IsSome(map[k]) }

\* the step dispatched the call op with a signed origin
SignedCall(c, op) == c.op = op /\ c.origin.kind = "Signed"

Errors == {"KittiesIdOverflow", "InvalidKittyId", "SameGender", "BadOrigin"}

\* C1: the identifiers issued by the successful create and breed calls are
\* exactly 0, 1, ..., N-1 in issuance order (hence pairwise distinct), N being
\* the number of successful calls, and the counter equals N: failed calls
\* consume no identifier.
C1_IdsSequential ==
    /\ \A i \in 1..Len(events) : events[i].kitty_id = i - 1
    /\ \A i \in 1..Len(events) : \A j \in 1..Len(events) :
          i # j => events[i].kitty_id # events[j].kitty_id
    /\ NextKittyId = Len(events)

C1_Witness ==
    /\ Len(events) = 3
    /\ events[3].kind = "KittyBred"
    /\ call.result \in Errors

\* C2: with the counter at the maximum of the id type, a signed create and a
\* signed breed of two existing parents of different genders fail with
\* KittiesIdOverflow, insert nothing, emit nothing and keep the counter.
C2_OverflowFails ==
    [][ NextKittyId = MaxKittyId =>
        /\ SignedCall(call', "create") =>
              call'.result = "KittiesIdOverflow" /\ UNCHANGED registry
        /\ ( /\ SignedCall(call', "breed")
             /\ IsSome(Kitties[call'.origin.who, call'.kitty_id_1])
             /\ IsSome(Kitties[call'.origin.who, call'.kitty_id_2])
             /\ gender(Unwrap(Kitties[call'.origin.who, call'.kitty_id_1]))
                # gender(Unwrap(Kitties[call'.origin.who, call'.kitty_id_2])) )
           => call'.result = "KittiesIdOverflow" /\ UNCHANGED registry
      ]_vars

C2_Witness ==
    /\ NextKittyId = MaxKittyId
    /\ call.op = "breed"
    /\ call.result = "KittiesIdOverflow"
    /\ IsSome(Kitties[call.origin.who, call.kitty_id_1])
    /\ IsSome(Kitties[call.origin.who, call.kitty_id_2])

\* C3: a breed of two records that exist under the caller and have the same
\* gender fails with SameGender and leaves counter and registry as they were.
C3_SameGenderFails ==
    [][ ( /\ SignedCall(call', "breed")
          /\ IsSome(Kitties[call'.origin.who, call'.kitty_id_1])
          /\ IsSome(Kitties[call'.origin.who, call'.kitty_id_2])
          /\ gender(Unwrap(Kitties[call'.origin.who, call'.kitty_id_1]))
             = gender(Unwrap(Kitties[call'.origin.who, call'.kitty_id_2])) )
        => call'.result = "SameGender" /\ UNCHANGED registry
      ]_vars

C3_Witness ==
    /\ call.op = "breed"
    /\ call.result = "SameGender"
    /\ call.kitty_id_1 # call.kitty_id_2
    /\ IsSome(Kitties[call.origin.who, call.kitty_id_1])
    /\ IsSome(Kitties[call.origin.who, call.kitty_id_2])
    /\ Unwrap(Kitties[call.origin.who, call.kitty_id_1])
       # Unwrap(Kitties[call.origin.who, call.kitty_id_2])

\* C4: a breed fails with InvalidKittyId whenever no record is stored at
\* (caller, id_a) or none at (caller, id_b), also when the identifier exists
\* under another owner, and changes neither the counter nor the registry.
C4_InvalidIdFails ==
    [][ ( /\ SignedCall(call', "breed")
          /\ \/ ~IsSome(Kitties[call'.origin.who, call'.kitty_id_1])
             \/ ~IsSome(Kitties[call'.origin.who, call'.kitty_id_2]) )
        => call'.result = "InvalidKittyId" /\ UNCHANGED registry
      ]_vars

C4_Witness ==
    /\ call.op = "breed"
    /\ call.result = "InvalidKittyId"
    /\ IsSome(Kitties[call.origin.who, call.kitty_id_1])
    /\ ~IsSome(Kitties[call.origin.who, call.kitty_id_2])
    /\ \E o \in Accounts : IsSome(Kitties[o, call.kitty_id_2])

\* C5: a successful create at counter c adds exactly one record, at
\* (caller, c), advances the counter to c + 1 and leaves every other key as it
\* was; the lookup of (caller, c) afterwards returns the created entity.
C5_CreateEffect ==
    [][ (call'.op = "create" /\ call'.result = "Ok") =>
        LET c == NextKittyId
            caller == call'.origin.who
        IN  /\ call'.origin.kind = "Signed"
            /\ ~IsSome(Kitties[caller, c])
            /\ Stored(Kitties') = Stored(Kitties) \cup {<<caller, c>>}
            /\ \A k \in Keys \ {<<caller, c>>} : Kitties'[k] = Kitties[k]
            /\ NextKittyId' = c + 1
            /\ kitties(Kitties', caller, c) = Some(call'.random)
            /\ events'[Len(events')].kitty = Unwrap(kitties(Kitties', caller, c))
      ]_vars

C5_Witness ==
    /\ call.op = "create"
    /\ call.result = "Ok"
    /\ NextKittyId = 3
    /\ Kitties[call.origin.who, 2] = Some(call.random)
    /\ Cardinality(Stored(Kitties)) = 3

\* C6: a successful breed at counter c stores exactly one new record, at
\* (caller, c), whose byte i is combine_dna(parent_a[i], parent_b[i],
\* selector[i]) for the selector drawn for the call, and advances the counter
\* to c + 1; after two creates by one owner from genesis with different
\* genders, breed(0, 1) succeeds with identifier 2.
C6_BreedEffect ==
    [][ /\ (call'.op = "breed" /\ call'.result = "Ok") =>
           LET c == NextKittyId
               caller == call'.origin.who
               a == Unwrap(Kitties[caller, call'.kitty_id_1])
               b == Unwrap(Kitties[caller, call'.kitty_id_2])
               child == Unwrap(Kitties'[caller, c])
           IN  /\ Stored(Kitties') = Stored(Kitties) \cup {<<caller, c>>}
               /\ <<caller, c>> \notin Stored(Kitties)
               /\ Len(child) = DnaLen
               /\ \A i \in 1..DnaLen :
                     child[i] = combine_dna(a[i], b[i], call'.random[i])
               /\ NextKittyId' = c + 1
        /\ ( /\ SignedCall(call', "breed")
             /\ call'.kitty_id_1 = 0 /\ call'.kitty_id_2 = 1
             /\ NextKittyId = 2
             /\ IsSome(Kitties[call'.origin.who, 0])
             /\ IsSome(Kitties[call'.origin.who, 1])
             /\ gender(Unwrap(Kitties[call'.origin.who, 0]))
                # gender(Unwrap(Kitties[call'.origin.who, 1])) )
           => /\ call'.result = "Ok"
              /\ events'[Len(events')].kitty_id = 2
              /\ IsSome(Kitties'[call'.origin.who, 2])
      ]_vars

C6_Witness ==
    /\ call.op = "breed"
    /\ call.result = "Ok"
    /\ call.kitty_id_1 = 0 /\ call.kitty_id_2 = 1
    /\ NextKittyId = 3
    /\ IsSome(Kitties[call.origin.who, 2])
    /\ Unwrap(Kitties[call.origin.who, 2]) # Unwrap(Kitties[call.origin.who, 0])
    /\ Unwrap(Kitties[call.origin.who, 2]) # Unwrap(Kitties[call.origin.who, 1])

\* C7: records are write-once: a record stored at (owner, id) is mapped to
\* the same payload after every later call; nothing is overwritten or removed.
C7_WriteOnce ==
    [][ \A k \in Keys : IsSome(Kitties[k]) => Kitties'[k] = Kitties[k] ]_vars

C7_Witness ==
    /\ Cardinality(Stored(Kitties)) = 3
    /\ call.op = "breed"
    /\ call.result = "Ok"

\* C8: no identifier is stored under two different owners.
C8_IdsUniqueAcrossOwners ==
    \A id \in KittyIds : \A o1 \in Accounts : \A o2 \in Accounts :
        (IsSome(Kitties[o1, id]) /\ IsSome(Kitties[o2, id])) => o1 = o2

C8_Witness ==
    \E o1 \in Accounts : \E o2 \in Accounts :
        /\ o1 # o2
        /\ \E id \in KittyIds : IsSome(Kitties[o1, id])
        /\ \E id \in KittyIds : IsSome(Kitties[o2, id])

\* C9: a call either advances the counter by one and inserts exactly one new
\* record, or changes neither; a call that returns an error changes neither.
C9_Atomic ==
    [][ LET inserted == Stored(Kitties') \ Stored(Kitties)
            applied == /\ NextKittyId' = NextKittyId + 1
                       /\ Cardinality(inserted) = 1
                       /\ \A k \in Keys \ inserted : Kitties'[k] = Kitties[k]
            nothing == NextKittyId' = NextKittyId /\ Kitties' = Kitties
        IN  /\ applied \/ nothing
            /\ call'.result \in Errors => nothing
            /\ call'.result = "Ok" => applied
      ]_vars

C9_Witness ==
    /\ call.op = "breed"
    /\ call.result = "SameGender"
    /\ NextKittyId = 2
    /\ Cardinality(Stored(Kitties)) = 2

\* C12: a successful create appends exactly one KittyCreated(owner, id,
\* entity) and a successful breed exactly one KittyBred(owner, id, entity),
\* with owner the caller, id the one just allocated and entity the record
\* then stored at (owner, id); a failing call deposits nothing.
C12_OneEventPerSuccess ==
    [][ LET caller == call'.origin.who
            Emitted(kind) ==
               /\ IsSome(Kitties'[caller, NextKittyId])
               /\ events' = Append(events,
                     [kind |-> kind, owner |-> caller, kitty_id |-> NextKittyId,
                      kitty |-> Unwrap(Kitties'[caller, NextKittyId])])
        IN  /\ (call'.op = "create" /\ call'.result = "Ok") => Emitted("KittyCreated")
            /\ (call'.op = "breed" /\ call'.result = "Ok") => Emitted("KittyBred")
            /\ call'.result \in Errors => events' = events
      ]_vars

C12_Witness ==
    /\ Len(events) = 3
    /\ events[1].kind = "KittyCreated"
    /\ events[3].kind = "KittyBred"
    /\ call.op = "breed"
    /\ call.result = "Ok"
    /\ Kitties[events[3].owner, events[3].kitty_id] = Some(events[3].kitty)

\* C13: once the counter is at the maximum of the id type it stays there, no
\* later create or breed succeeds, and the registry stays as it was.
C13_OverflowIsFinal ==
    [][ NextKittyId = MaxKittyId =>
        /\ NextKittyId' = MaxKittyId
        /\ Kitties' = Kitties
        /\ events' = events
        /\ call'.result \in Errors
      ]_vars

C13_Witness ==
    /\ NextKittyId = MaxKittyId
    /\ call.op = "create"
    /\ call.result = "KittiesIdOverflow"
    /\ Cardinality(Stored(Kitties)) = MaxKittyId

\* C14: a create or breed whose origin is not signed fails at ensure_signed,
\* before any other step: counter and registry unchanged, no event.
C14_UnsignedFails ==
    [][ (call'.op \in {"create", "breed"} /\ call'.origin.kind # "Signed")
        => call'.result = "BadOrigin" /\ UNCHANGED registry
      ]_vars

C14_Witness ==
    /\ call.op = "breed"
    /\ call.origin.kind = "None"
    /\ call.result = "BadOrigin"
    /\ \E o \in Accounts : /\ IsSome(Kitties[o, call.kitty_id_1])
                           /\ IsSome(Kitties[o, call.kitty_id_2])
                           /\ gender(Unwrap(Kitties[o, call.kitty_id_1]))
                              # gender(Unwrap(Kitties[o, call.kitty_id_2]))

\* C16: breed checks existence, then gender, then allocation: with the counter
\* at the maximum an absent parent still gives InvalidKittyId and two parents
\* of the same gender still give SameGender; KittiesIdOverflow is returned
\* only when both parents exist and their genders differ.
C16_BreedCheckOrder ==
    [][ SignedCall(call', "breed") =>
        LET caller == call'.origin.who
            k1 == Kitties[caller, call'.kitty_id_1]
            k2 == Kitties[caller, call'.kitty_id_2]
        IN  /\ (NextKittyId = MaxKittyId /\ (~IsSome(k1) \/ ~IsSome(k2)))
                  => call'.result = "InvalidKittyId"
            /\ ( /\ NextKittyId = MaxKittyId
                 /\ IsSome(k1) /\ IsSome(k2)
                 /\ gender(Unwrap(k1)) = gender(Unwrap(k2)) )
                  => call'.result = "SameGender"
            /\ call'.result = "KittiesIdOverflow"
                  => /\ IsSome(k1) /\ IsSome(k2)
                     /\ gender(Unwrap(k1)) # gender(Unwrap(k2))
                     /\ NextKittyId = MaxKittyId
      ]_vars

C16_Witness ==
    /\ NextKittyId = MaxKittyId
    /\ call.op = "breed"
    /\ call.result = "SameGender"
    /\ call.kitty_id_1 # call.kitty_id_2

\* C17: the identifiers in the registry are exactly 0 .. counter - 1, one
\* record each, and the maximum of the id type is never issued.
C17_IdsBelowCounter ==
    /\ { k[2] : k \in Stored(Kitties) } = 0..(NextKittyId - 1)
    /\ Cardinality(Stored(Kitties)) = NextKittyId
    /\ \A o \in Accounts : ~IsSome(Kitties[o, MaxKittyId])

C17_Witness ==
    /\ NextKittyId = MaxKittyId
    /\ call.result = "KittiesIdOverflow"
    /\ \E o \in Accounts : IsSome(Kitties[o, MaxKittyId - 1])

\* C18: breed(caller, id, id) never succeeds: InvalidKittyId if (caller, id)
\* is absent, SameGender otherwise, and no state changes.
C18_SelfBreedFails ==
    [][ (SignedCall(call', "breed") /\ call'.kitty_id_1 = call'.kitty_id_2) =>
        /\ call'.result = IF IsSome(Kitties[call'.origin.who, call'.kitty_id_1])
                          THEN "SameGender" ELSE "InvalidKittyId"
        /\ UNCHANGED registry
      ]_vars

C18_Witness ==
    /\ call.op = "breed"
    /\ call.kitty_id_1 = call.kitty_id_2
    /\ call.result = "SameGender"
    /\ NextKittyId < MaxKittyId

\* C19: a call by O adds a record under O only: every record of another owner
\* is the same after the call, and the offspring of a successful breed is
\* stored under the owner of both its parents.
C19_OnlyCallerRecords ==
    [][ (call'.op \in {"create", "breed"} /\ call'.origin.kind = "Signed") =>
        LET caller == call'.origin.who IN
        /\ \A k \in Keys : k[1] # caller => Kitties'[k] = Kitties[k]
        /\ \A k \in Stored(Kitties') \ Stored(Kitties) : k[1] = caller
        /\ (call'.op = "breed" /\ call'.result = "Ok") =>
              /\ IsSome(Kitties[caller, call'.kitty_id_1])
              /\ IsSome(Kitties[caller, call'.kitty_id_2])
              /\ IsSome(Kitties'[caller, NextKittyId])
      ]_vars

C19_Witness ==
    /\ call.op = "create"
    /\ call.result = "Ok"
    /\ IsSome(Kitties[call.origin.who, NextKittyId - 1])
    /\ \E o \in Accounts : o # call.origin.who /\ \E id \in KittyIds : IsSome(Kitties[o, id])

----------------------------------------------------------------------------
(* Properties of the genetics functions *)

\* C10: each bit of combine_dna(a, b, s) is a's bit where the selector bit is
\* 0 and b's bit where it is 1; selector 0x00 gives a and 0xFF gives b.
C10_CombineSelects ==
    gpc = "combined" =>
        /\ new_dna \in Bytes
        /\ \A i \in 0..(ByteBits - 1) :
              Bit(new_dna, i) = IF Bit(selector, i) = 0 THEN Bit(dna1, i)
                                                        ELSE Bit(dna2, i)
        /\ selector = 0 => new_dna = dna1
        /\ selector = ByteMax => new_dna = dna2

C10_Witness ==
    /\ gpc = "combined"
    /\ selector \notin {0, ByteMax}
    /\ new_dna # dna1
    /\ new_dna # dna2

\* C11: gender(p) is one of exactly two values and is decided by p[0] & 1
\* alone: even first byte one gender, odd first byte the other, whatever the
\* bytes 1..15 are.
C11_GenderByLowBit ==
    gpc = "gendered" =>
        /\ the_gender \in {"Male", "Female"}
        /\ the_gender = (IF Bit(the_kitty[1], 0) = 0 THEN "Male" ELSE "Female")
        /\ \A t \in TailInputs : gender(<<the_kitty[1]>> \o t) = the_gender

C11_Witness ==
    /\ gpc = "gendered"
    /\ the_gender = "Female"
    /\ the_kitty[1] = 37
    /\ the_kitty[2] = 0

\* C20: every bit of combine_dna(a, b, s) is the corresponding bit of a or of
\* b, so combine_dna(a, a, s) = a, and swapping the parents while
\* complementing the selector gives the same byte.
C20_CombineInherits ==
    gpc = "combined" =>
        /\ \A i \in 0..(ByteBits - 1) :
              Bit(new_dna, i) \in {Bit(dna1, i), Bit(dna2, i)}
        /\ dna1 = dna2 => new_dna = dna1
        /\ new_dna = combine_dna(dna2, dna1, BitNot(selector))

C20_Witness ==
    /\ gpc = "combined"
    /\ dna1 = dna2
    /\ dna1 \notin {0, ByteMax}
    /\ selector \notin {0, ByteMax}
    /\ new_dna = dna1

====
